---- MODULE Spec2Model ----
(***************************************************************************)
(* Skill-Gap-AI-Identifier: the adaptive quiz engine (quiz_engine.py), the *)
(* gap / readiness model (gap_analysis.py), the learning roadmap           *)
(* (learning_roadmap.py), the roles (roles.py) and the quiz session of the *)
(* Streamlit app (app.py).                                                 *)
(*                                                                         *)
(* Skill levels are Python floats with one decimal place; the model holds  *)
(* them in tenths (level 7.5 is 75).  round(x, 1) yields the tenth nearest *)
(* to x; when x lies exactly halfway between two tenths the result is      *)
(* decided by the binary representation of the float and may be either     *)
(* neighbour, so the rounding operators take the direction as a parameter  *)
(* that the actions choose freely.                                         *)
(***************************************************************************)
EXTENDS Integers, Sequences, FiniteSets, TLC

VARIABLES
    role_skills,          \* generate_adaptive_quiz: the skill list passed in
    questions_per_skill,  \* generate_adaptive_quiz: questions per skill
    user_scores,          \* skill -> level in tenths (session user_scores / user_levels)
    quiz,                 \* the generated quiz, a sequence of items
    quiz_responses,       \* item id -> selected option index (the answers)
    results,              \* what score_quiz returned: skill -> summary
    role_requirements,    \* the role's requirements: sequence of [skill, required]
    gaps,                 \* what calculate_skill_gaps returned (ordered)
    readiness,            \* what calculate_readiness_score returned, in tenths of a percent
    strengths,            \* what identify_strength_areas returned (ordered)
    weeks,                \* generate_learning_roadmap: the week count passed in
    roadmap,              \* what generate_learning_roadmap returned
    quiz_mode,            \* session flag: a quiz is being taken
    stale_answers,        \* history: Start Quiz found answers of an earlier quiz
    submits,              \* number of quiz submissions of the session so far
    pc                    \* position of the run

vars == << role_skills, questions_per_skill, user_scores, quiz, quiz_responses,
           results, role_requirements, gaps, readiness, strengths, weeks, roadmap, quiz_mode,
           stale_answers, submits, pc >>

----------------------------------------------------------------------------
(* Bounds of the model *)

\* longest skill list handed to generate_adaptive_quiz
MaxRoleSkills == 2

\* most items of one quiz: Len(role_skills) * questions_per_skill
MaxItems == 4

----------------------------------------------------------------------------
(* quiz_engine.py: the question bank.  A question is held as its position  *)
(* q in its pool (standing for its text), the number of its options and    *)
(* the index ans of the correct option.                                    *)

QUESTION_BANK ==
    "Python" :> [ beginner |-> << [q |-> 1, opts |-> 4, ans |-> 0], [q |-> 2, opts |-> 4, ans |-> 2], [q |-> 3, opts |-> 4, ans |-> 1] >>,
                    intermediate |-> << [q |-> 1, opts |-> 4, ans |-> 1], [q |-> 2, opts |-> 4, ans |-> 1], [q |-> 3, opts |-> 4, ans |-> 1] >>,
                    advanced |-> << [q |-> 1, opts |-> 4, ans |-> 1], [q |-> 2, opts |-> 4, ans |-> 2] >>,
                    expert |-> << [q |-> 1, opts |-> 4, ans |-> 0] >> ] @@
    "JavaScript" :> [ beginner |-> << [q |-> 1, opts |-> 4, ans |-> 1], [q |-> 2, opts |-> 4, ans |-> 2] >>,
                        intermediate |-> << [q |-> 1, opts |-> 4, ans |-> 2], [q |-> 2, opts |-> 4, ans |-> 0] >>,
                        advanced |-> << [q |-> 1, opts |-> 4, ans |-> 1] >>,
                        expert |-> << [q |-> 1, opts |-> 4, ans |-> 0] >> ] @@
    "SQL" :> [ beginner |-> << [q |-> 1, opts |-> 4, ans |-> 1], [q |-> 2, opts |-> 4, ans |-> 1] >>,
                 intermediate |-> << [q |-> 1, opts |-> 4, ans |-> 1], [q |-> 2, opts |-> 4, ans |-> 1] >>,
                 advanced |-> << [q |-> 1, opts |-> 4, ans |-> 0] >>,
                 expert |-> << [q |-> 1, opts |-> 4, ans |-> 1] >> ] @@
    "Machine Learning" :> [ beginner |-> << [q |-> 1, opts |-> 4, ans |-> 1], [q |-> 2, opts |-> 4, ans |-> 0] >>,
                              intermediate |-> << [q |-> 1, opts |-> 4, ans |-> 1], [q |-> 2, opts |-> 4, ans |-> 1] >>,
                              advanced |-> << [q |-> 1, opts |-> 4, ans |-> 1] >>,
                              expert |-> << [q |-> 1, opts |-> 4, ans |-> 0] >> ] @@
    "Statistics" :> [ beginner |-> << [q |-> 1, opts |-> 4, ans |-> 1], [q |-> 2, opts |-> 4, ans |-> 1] >>,
                        intermediate |-> << [q |-> 1, opts |-> 4, ans |-> 0] >>,
                        advanced |-> << [q |-> 1, opts |-> 4, ans |-> 0] >>,
                        expert |-> << [q |-> 1, opts |-> 4, ans |-> 0] >> ] @@
    "React" :> [ beginner |-> << [q |-> 1, opts |-> 4, ans |-> 1] >>,
                   intermediate |-> << [q |-> 1, opts |-> 4, ans |-> 1] >>,
                   advanced |-> << [q |-> 1, opts |-> 4, ans |-> 1] >>,
                   expert |-> << [q |-> 1, opts |-> 4, ans |-> 0] >> ] @@
    "Deep Learning" :> [ beginner |-> << [q |-> 1, opts |-> 4, ans |-> 1] >>,
                           intermediate |-> << [q |-> 1, opts |-> 4, ans |-> 1] >>,
                           advanced |-> << [q |-> 1, opts |-> 4, ans |-> 1] >>,
                           expert |-> << [q |-> 1, opts |-> 4, ans |-> 0] >> ] @@
    "Docker" :> [ beginner |-> << [q |-> 1, opts |-> 4, ans |-> 1] >>,
                    intermediate |-> << [q |-> 1, opts |-> 4, ans |-> 1] >>,
                    advanced |-> << [q |-> 1, opts |-> 4, ans |-> 1] >>,
                    expert |-> << [q |-> 1, opts |-> 4, ans |-> 0] >> ] @@
    "Git" :> [ beginner |-> << [q |-> 1, opts |-> 4, ans |-> 1] >>,
                 intermediate |-> << [q |-> 1, opts |-> 4, ans |-> 1] >>,
                 advanced |-> << [q |-> 1, opts |-> 4, ans |-> 1] >> ] @@
    "Testing" :> [ beginner |-> << [q |-> 1, opts |-> 4, ans |-> 1] >>,
                     intermediate |-> << [q |-> 1, opts |-> 4, ans |-> 1] >>,
                     advanced |-> << [q |-> 1, opts |-> 4, ans |-> 1] >> ] @@
    "CSS" :> [ beginner |-> << [q |-> 1, opts |-> 4, ans |-> 0] >>,
                 intermediate |-> << [q |-> 1, opts |-> 4, ans |-> 1] >>,
                 advanced |-> << [q |-> 1, opts |-> 4, ans |-> 1] >> ] @@
    "APIs" :> [ beginner |-> << [q |-> 1, opts |-> 4, ans |-> 0] >>,
                  intermediate |-> << [q |-> 1, opts |-> 4, ans |-> 2] >>,
                  advanced |-> << [q |-> 1, opts |-> 4, ans |-> 1] >> ] @@
    "System Design" :> [ beginner |-> << [q |-> 1, opts |-> 4, ans |-> 1] >>,
                           intermediate |-> << [q |-> 1, opts |-> 4, ans |-> 1] >>,
                           advanced |-> << [q |-> 1, opts |-> 4, ans |-> 0] >> ] @@
    "NLP" :> [ beginner |-> << [q |-> 1, opts |-> 4, ans |-> 0] >>,
                 intermediate |-> << [q |-> 1, opts |-> 4, ans |-> 1] >>,
                 advanced |-> << [q |-> 1, opts |-> 4, ans |-> 1] >> ] @@
    "Computer Vision" :> [ beginner |-> << [q |-> 1, opts |-> 4, ans |-> 1] >>,
                             intermediate |-> << [q |-> 1, opts |-> 4, ans |-> 1] >>,
                             advanced |-> << [q |-> 1, opts |-> 4, ans |-> 0] >> ] @@
    "Data Visualization" :> [ beginner |-> << [q |-> 1, opts |-> 4, ans |-> 0] >>,
                                intermediate |-> << [q |-> 1, opts |-> 4, ans |-> 1] >>,
                                advanced |-> << [q |-> 1, opts |-> 4, ans |-> 0] >> ] @@
    "Cloud Computing" :> [ beginner |-> << [q |-> 1, opts |-> 4, ans |-> 0] >>,
                             intermediate |-> << [q |-> 1, opts |-> 4, ans |-> 1] >>,
                             advanced |-> << [q |-> 1, opts |-> 4, ans |-> 0] >> ] @@
    "DevOps" :> [ beginner |-> << [q |-> 1, opts |-> 4, ans |-> 0] >>,
                    intermediate |-> << [q |-> 1, opts |-> 4, ans |-> 1] >>,
                    advanced |-> << [q |-> 1, opts |-> 4, ans |-> 0] >> ]

DIFFICULTY_ORDER == << "beginner", "intermediate", "advanced", "expert" >>

\* DIFFICULTY_ORDER.index(d), 0-based as in Python
DifficultyIndex(d) == (CHOOSE i \in 1..Len(DIFFICULTY_ORDER) : DIFFICULTY_ORDER[i] = d) - 1

\* the level assumed for a skill absent from user_levels: user_levels.get(skill, 5)
DefaultLevel == 50

\* QUESTION_BANK[skill].get(difficulty, [])
Pool(skill, difficulty) ==
    IF difficulty \in DOMAIN QUESTION_BANK[skill]
    THEN QUESTION_BANK[skill][difficulty]
    ELSE << >>

\* faulty variant: the level is cut to a whole number before the thresholds
DifficultyForTruncatedLevel(level) ==
    IF (level \div 10) * 10 <= 30 THEN "beginner"
    ELSE IF (level \div 10) * 10 <= 50 THEN "intermediate"
    ELSE IF (level \div 10) * 10 <= 70 THEN "advanced"
    ELSE "expert"

\* levels are in tenths: 3 is 30, 5 is 50, 7 is 70
_difficulty_for_level(level) ==
    IF level <= 30 THEN "beginner"
    ELSE IF level <= 50 THEN "intermediate"
    ELSE IF level <= 70 THEN "advanced"
    ELSE "expert"

Min(a, b) == IF a <= b THEN a ELSE b
Max(a, b) == IF a >= b THEN a ELSE b

\* faulty variant: the adaptation steps one tier down instead of up
NextDifficultyDown(current, correct) ==
    DIFFICULTY_ORDER[Max(DifficultyIndex(current) - 1, 0) + 1]

_next_difficulty(current, correct) ==
    LET idx == DifficultyIndex(current)
        nxt == IF correct THEN Min(idx + 1, Len(DIFFICULTY_ORDER) - 1)
                          ELSE Max(idx - 1, 0)
    IN  DIFFICULTY_ORDER[nxt + 1]

\* user_levels.get(skill, dflt)
GetLevel(levels, skill, dflt) == IF skill \in DOMAIN levels THEN levels[skill] ELSE dflt

----------------------------------------------------------------------------
(* quiz_engine.py: generate_adaptive_quiz.  random.choice(pool) may return *)
(* any question of the pool, so the operators yield the set of every quiz  *)
(* the call can return.                                                    *)

\* the pool a draw uses and the difficulty it records: the pool of the
\* current difficulty, or the first non-empty pool in DIFFICULTY_ORDER
FallbackDifficulties(skill) ==
    { i \in 1..Len(DIFFICULTY_ORDER) : Pool(skill, DIFFICULTY_ORDER[i]) # << >> }

\* faulty variant: the fallback takes the highest non-empty pool
DrawDifficultyHighest(skill, difficulty) ==
    IF Pool(skill, difficulty) # << >> THEN difficulty
    ELSE IF FallbackDifficulties(skill) = {} THEN difficulty
    ELSE DIFFICULTY_ORDER[CHOOSE i \in FallbackDifficulties(skill) :
                              \A j \in FallbackDifficulties(skill) : i >= j]

DrawDifficulty(skill, difficulty) ==
    IF Pool(skill, difficulty) # << >> THEN difficulty
    ELSE IF FallbackDifficulties(skill) = {} THEN difficulty
    ELSE DIFFICULTY_ORDER[CHOOSE i \in FallbackDifficulties(skill) :
                              \A j \in FallbackDifficulties(skill) : i <= j]

\* faulty variant: the correct index is moved to the next option
QuizItemShifted(qid, skill, difficulty, question) ==
    [ id |-> qid, skill |-> skill, difficulty |-> difficulty,
      question |-> question.q, options |-> question.opts,
      correct_index |-> (question.ans + 1) % question.opts ]

QuizItem(qid, skill, difficulty, question) ==
    [ id |-> qid, skill |-> skill, difficulty |-> difficulty,
      question |-> question.q, options |-> question.opts,
      correct_index |-> question.ans ]

\* faulty variant: a draw whose current pool is empty is skipped, no fallback
RECURSIVE SkillDrawsNoFallback(_, _, _, _)
SkillDrawsNoFallback(skill, difficulty, remaining, qid) ==
    IF remaining = 0 THEN { << >> }
    ELSE LET pool == Pool(skill, difficulty)
         IN  IF pool = << >>
             THEN SkillDrawsNoFallback(skill, difficulty, remaining - 1, qid)
             ELSE UNION { { << QuizItem(qid, skill, difficulty, pool[k]) >> \o rest :
                              rest \in SkillDrawsNoFallback(skill,
                                           _next_difficulty(difficulty, TRUE),
                                           remaining - 1, qid + 1) } :
                          k \in 1..Len(pool) }

\* the inner loop: `remaining` draws for one skill, ids from qid on
RECURSIVE SkillDraws(_, _, _, _)
SkillDraws(skill, difficulty, remaining, qid) ==
    IF remaining = 0 THEN { << >> }
    ELSE LET used == DrawDifficulty(skill, difficulty)
             pool == Pool(skill, used)
         IN  IF pool = << >>
             THEN SkillDraws(skill, used, remaining - 1, qid)
             ELSE UNION { { << QuizItem(qid, skill, used, pool[k]) >> \o rest :
                              rest \in SkillDraws(skill, _next_difficulty(used, TRUE),
                                                  remaining - 1, qid + 1) } :
                          k \in 1..Len(pool) }

\* faulty variant: the ids start again at 0 for every skill
RECURSIVE QuizFromRestart(_, _, _, _, _)
QuizFromRestart(skills, levels, qps, i, qid) ==
    IF i > Len(skills) THEN { << >> }
    ELSE IF skills[i] \notin DOMAIN QUESTION_BANK
         THEN QuizFromRestart(skills, levels, qps, i + 1, qid)
         ELSE UNION { { run \o rest :
                          rest \in QuizFromRestart(skills, levels, qps, i + 1, 0) } :
                      run \in SkillDraws(skills[i],
                                         _difficulty_for_level(GetLevel(levels, skills[i], DefaultLevel)),
                                         qps, 0) }

\* the outer loop over role_skills from position i on
RECURSIVE QuizFrom(_, _, _, _, _)
QuizFrom(skills, levels, qps, i, qid) ==
    IF i > Len(skills) THEN { << >> }
    ELSE IF skills[i] \notin DOMAIN QUESTION_BANK
         THEN QuizFrom(skills, levels, qps, i + 1, qid)
         ELSE UNION { { run \o rest :
                          rest \in QuizFrom(skills, levels, qps, i + 1, qid + Len(run)) } :
                      run \in SkillDraws(skills[i],
                                         _difficulty_for_level(GetLevel(levels, skills[i], DefaultLevel)),
                                         qps, qid) }

\* for idx, q in enumerate(quiz): q["display_order"] = idx
AssignDisplayOrder(items) ==
    [ i \in 1..Len(items) |-> items[i] @@ ("display_order" :> (i - 1)) ]

generate_adaptive_quiz(skills, levels, qps) ==
    { AssignDisplayOrder(items) : items \in QuizFrom(skills, levels, qps, 1, 0) }

----------------------------------------------------------------------------
(* Python's round(x, 1) for x = num / den tenths (num >= 0, den > 0): the  *)
(* nearest tenth; at an exact tie the float's binary value decides, `up`   *)
(* tells which way it falls.                                               *)

Round1(num, den, up) ==
    LET q == num \div den
        r == num % den
    IN  IF 2 * r < den THEN q
        ELSE IF 2 * r > den THEN q + 1
        ELSE IF up THEN q + 1 ELSE q

----------------------------------------------------------------------------
(* quiz_engine.py: score_quiz *)

\* answers.get(q["id"]): the selected index, or NoAnswer for Python's None
NoAnswer == -1

GetAnswer(answers, qid) == IF qid \in DOMAIN answers THEN answers[qid] ELSE NoAnswer

\* faulty variant: a correct answer always overwrites max_difficulty, and an
\* unanswered item is not counted in total
ScoreItemNoCompare(skill_results, q, answers) ==
    LET skill == q.skill
        r0 == IF skill \in DOMAIN skill_results
              THEN skill_results
              ELSE skill_results @@
                   (skill :> [ correct |-> 0, total |-> 0, max_difficulty |-> "beginner" ])
        selected == GetAnswer(answers, q.id)
    IN  IF selected = NoAnswer THEN r0
        ELSE IF selected = q.correct_index
        THEN [ r0 EXCEPT ![skill].total = @ + 1,
                         ![skill].correct = @ + 1,
                         ![skill].max_difficulty = q.difficulty ]
        ELSE [ r0 EXCEPT ![skill].total = @ + 1 ]

\* the first loop: one step for item q on the running skill_results
ScoreItem(skill_results, q, answers) ==
    LET skill == q.skill
        r0 == IF skill \in DOMAIN skill_results
              THEN skill_results
              ELSE skill_results @@
                   (skill :> [ correct |-> 0, total |-> 0, max_difficulty |-> "beginner" ])
        r1 == [ r0 EXCEPT ![skill].total = @ + 1 ]
        selected == GetAnswer(answers, q.id)
    IN  IF selected = q.correct_index
        THEN LET cur == DifficultyIndex(r1[skill].max_difficulty)
                 got == DifficultyIndex(q.difficulty)
             IN  [ r1 EXCEPT ![skill].correct = @ + 1,
                             ![skill].max_difficulty =
                                 IF got >= cur THEN q.difficulty ELSE @ ]
        ELSE r1

RECURSIVE ScoreItems(_, _, _, _)
ScoreItems(skill_results, items, i, answers) ==
    IF i > Len(items) THEN skill_results
    ELSE ScoreItems(ScoreItem(skill_results, items[i], answers), items, i + 1, answers)

\* faulty variant: the accuracy bonus is left out of the score
Score0To10NoBonus(res, up) ==
    Min(100, 20 + 25 * DifficultyIndex(res.max_difficulty))

\* faulty variant: the score is not capped at 10
Score0To10Uncapped(res, up) ==
    LET diff_idx == DifficultyIndex(res.max_difficulty)
    IN  IF res.total = 0
        THEN 20 + 25 * diff_idx
        ELSE Round1((20 + 25 * diff_idx) * res.total + 20 * res.correct, res.total, up)

\* faulty variant: the score follows the accuracy alone, 2 + 8 * ratio
Score0To10AccuracyOnly(res, up) ==
    IF res.total = 0 THEN 20
    ELSE Min(100, Round1(20 * res.total + 80 * res.correct, res.total, up))

\* the second loop: min(10, round(2 + diff_idx * 2.5 + ratio * 2, 1)), in tenths
Score0To10(res, up) ==
    LET diff_idx == DifficultyIndex(res.max_difficulty)
    IN  IF res.total = 0
        THEN Min(100, 20 + 25 * diff_idx)
        ELSE Min(100, Round1((20 + 25 * diff_idx) * res.total + 20 * res.correct,
                             res.total, up))

\* fp: skill -> BOOLEAN, the way each skill's rounding falls at a tie
score_quiz(items, answers, fp) ==
    LET skill_results == ScoreItems(<< >>, items, 1, answers)
    IN  [ skill \in DOMAIN skill_results |->
            skill_results[skill] @@
            ("score_0_10" :> Score0To10(skill_results[skill], fp[skill])) ]

----------------------------------------------------------------------------
(* gap_analysis.py.  role_requirements is a dict, iterated in insertion    *)
(* order: a sequence of [skill, required].  user_scores holds levels with  *)
(* one decimal, so round(level, 1) is the level itself.                    *)

\* user_scores.get(skill, 0)
GetScore(scores, skill) == IF skill \in DOMAIN scores THEN scores[skill] ELSE 0

\* faulty variant: the gap is not floored at 0 and the priority is gap / 10
GapRecordUnfloored(scores, req, up) ==
    LET current == GetScore(scores, req.skill)
        gap == req.required - current
    IN  [ skill |-> req.skill, current |-> current, required |-> req.required,
          gap |-> gap, priority_score |-> Round1(Max(gap, 0) * 10, 100, up),
          status |-> IF gap = 0 THEN "Strong" ELSE "Gap" ]

\* faulty variant: the priority is gap * required / 100, a tenth of what it should be
GapRecordScaled(scores, req, up) ==
    LET current == GetScore(scores, req.skill)
        gap == Max(req.required - current, 0)
    IN  [ skill |-> req.skill, current |-> current, required |-> req.required,
          gap |-> gap, priority_score |-> Round1(gap * req.required, 1000, up),
          status |-> IF gap = 0 THEN "Strong" ELSE "Gap" ]

\* lines 9-21: the record of one skill; priority_score = gap * (required / 10)
GapRecord(scores, req, up) ==
    LET current == GetScore(scores, req.skill)
        gap == Max(req.required - current, 0)
        priority_score == IF req.required > 0
                          THEN Round1(gap * req.required, 100, up)
                          ELSE 0
    IN  [ skill |-> req.skill, current |-> current, required |-> req.required,
          gap |-> gap, priority_score |-> priority_score,
          status |-> IF gap = 0 THEN "Strong" ELSE "Gap" ]

\* faulty variant: an entry goes before the entries of equal priority_score
InsertBeforeEqual(sorted, rec) ==
    LET before == { i \in 1..Len(sorted) : sorted[i].priority_score > rec.priority_score }
        n == Cardinality(before)
    IN  SubSeq(sorted, 1, n) \o << rec >> \o SubSeq(sorted, n + 1, Len(sorted))

\* sorted(..., key=priority_score, reverse=True) is stable: an entry goes
\* behind every entry whose priority_score is at least its own
InsertByPriority(sorted, rec) ==
    LET before == { i \in 1..Len(sorted) : sorted[i].priority_score >= rec.priority_score }
        n == Cardinality(before)
    IN  SubSeq(sorted, 1, n) \o << rec >> \o SubSeq(sorted, n + 1, Len(sorted))

RECURSIVE SortByPriority(_, _)
SortByPriority(recs, n) ==
    IF n = 0 THEN << >>
    ELSE InsertByPriority(SortByPriority(recs, n - 1), recs[n])

\* fp: position in role_requirements -> BOOLEAN, the way each rounding falls
calculate_skill_gaps(scores, reqs, fp) ==
    LET recs == [ i \in 1..Len(reqs) |-> GapRecord(scores, reqs[i], fp[i]) ]
    IN  SortByPriority(recs, Len(recs))

RECURSIVE SumRequired(_, _)
SumRequired(reqs, n) ==
    IF n = 0 THEN 0 ELSE SumRequired(reqs, n - 1) + reqs[n].required

\* faulty variant: the current level is not capped at the required level
SumCurrentUncapped(scores, reqs, n) ==
    LET RECURSIVE S(_)
        S(k) == IF k = 0 THEN 0 ELSE S(k - 1) + GetScore(scores, reqs[k].skill)
    IN  S(n)

\* sum(min(user_scores.get(skill, 0), req) for skill, req in ...)
SumCurrent(scores, reqs, n) ==
    LET RECURSIVE S(_)
        S(k) == IF k = 0 THEN 0
                ELSE S(k - 1) + Min(GetScore(scores, reqs[k].skill), reqs[k].required)
    IN  S(n)

\* the percentage in tenths of a percent: 56.2 is 562
calculate_readiness_score(scores, reqs, up) ==
    IF reqs = << >> THEN 0
    ELSE LET total_required == SumRequired(reqs, Len(reqs))
             total_current == SumCurrent(scores, reqs, Len(reqs))
             rounded == IF total_required > 0
                        THEN Round1(total_current * 1000, total_required, up)
                        ELSE 0
         IN  Min(1000, rounded)

\* faulty variant: a skill exactly at its requirement is not a strength
IsStrengthStrict(current, required) == current > required

\* line 32: if current >= required
IsStrength(current, required) == current >= required

\* lines 30-37: the loop over the first n requirements, in insertion order
RECURSIVE StrengthsUpTo(_, _, _)
StrengthsUpTo(scores, reqs, n) ==
    IF n = 0 THEN << >>
    ELSE LET current == GetScore(scores, reqs[n].skill)
             required == reqs[n].required
             before == StrengthsUpTo(scores, reqs, n - 1)
         IN  IF IsStrength(current, required)
             THEN Append(before, [ skill |-> reqs[n].skill, current |-> current,
                                   required |-> required,
                                   surplus |-> current - required ])
             ELSE before

identify_strength_areas(scores, reqs) == StrengthsUpTo(scores, reqs, Len(reqs))

----------------------------------------------------------------------------
(* learning_roadmap.py.  Scores are in tenths: priority_score 15 is 150,   *)
(* level 3 is 30.  A call that raises is modelled by the result Raised.    *)

\* no roadmap has been generated yet
NoRoadmap == [ status |-> "none", weeks |-> << >> ]

\* the call raised ZeroDivisionError (line 57, len(skills_list) // weeks)
Raised == [ status |-> "ZeroDivisionError", weeks |-> << >> ]

\* faulty variant: the thresholds are 1.5 and 0.8 instead of 15 and 8
PriorityDescriptionTenth(priority_score) ==
    IF priority_score > 15 THEN "Critical - Focus on this first"
    ELSE IF priority_score > 8 THEN "Important - High priority"
    ELSE "Moderate - Can be learned later"

get_priority_description(priority_score) ==
    IF priority_score > 150 THEN "Critical - Focus on this first"
    ELSE IF priority_score > 80 THEN "Important - High priority"
    ELSE "Moderate - Can be learned later"

\* faulty variant: the difficulty label follows the required level
FocusAreaByTarget(gap_info) ==
    [ skill |-> gap_info.skill,
      current_level |-> gap_info.current,
      target_level |-> gap_info.required,
      levels_to_improve |-> gap_info.gap,
      difficulty |-> IF gap_info.required <= 30 THEN "Beginner"
                     ELSE IF gap_info.required <= 60 THEN "Intermediate"
                     ELSE "Advanced",
      priority |-> get_priority_description(gap_info.priority_score),
      priority_score |-> gap_info.priority_score ]

\* lines 71-84: the focus area of one skill
FocusArea(gap_info) ==
    [ skill |-> gap_info.skill,
      current_level |-> gap_info.current,
      target_level |-> gap_info.required,
      levels_to_improve |-> gap_info.gap,
      difficulty |-> IF gap_info.current <= 30 THEN "Beginner"
                     ELSE IF gap_info.current <= 60 THEN "Intermediate"
                     ELSE "Advanced",
      priority |-> get_priority_description(gap_info.priority_score),
      priority_score |-> gap_info.priority_score ]

\* Python's xs[start:end] for 0 <= start, 0 <= end
Slice(xs, start, end) ==
    SubSeq(xs, Min(start, Len(xs)) + 1, Min(end, Len(xs)))

\* line 57: max(1, len(skills_list) // weeks); Python's // floors, so for
\* weeks < 0 the quotient is <= 0 and the maximum is 1; weeks = 0 raises
SkillsPerWeek(n, week_count) ==
    IF week_count > 0 THEN Max(1, n \div week_count) ELSE 1

\* faulty variant: the last week takes a bucket like every other week
WeekSkillsNoRemainder(skills_list, week_num, week_count) ==
    LET skills_per_week == SkillsPerWeek(Len(skills_list), week_count)
        start_idx == (week_num - 1) * skills_per_week
    IN  Slice(skills_list, start_idx, start_idx + skills_per_week)

\* lines 60-63: the skills of week week_num
WeekSkills(skills_list, week_num, week_count) ==
    LET skills_per_week == SkillsPerWeek(Len(skills_list), week_count)
        start_idx == (week_num - 1) * skills_per_week
        end_idx == IF week_num < week_count THEN start_idx + skills_per_week
                   ELSE Len(skills_list)
    IN  Slice(skills_list, start_idx, end_idx)

\* lines 65-97: the plan of one week
WeekPlan(skills_list, week_num, week_count) ==
    LET week_skills == WeekSkills(skills_list, week_num, week_count)
    IN  [ week |-> week_num,
          focus_areas |-> [ k \in 1..Len(week_skills) |-> FocusArea(week_skills[k]) ] ]

\* line 33: the records with gap > 0, in the order of calculate_skill_gaps
SkillsToLearn(gap_records) == SelectSeq(gap_records, LAMBDA rec : rec.gap > 0)

\* fp: position in role_requirements -> BOOLEAN, as for calculate_skill_gaps
generate_learning_roadmap(scores, reqs, week_count, fp) ==
    LET skills_list == SkillsToLearn(calculate_skill_gaps(scores, reqs, fp))
    IN  IF skills_list = << >>
        THEN [ status |-> "Congratulations!", weeks |-> << >> ]
        ELSE IF week_count = 0
        THEN Raised
        ELSE [ status |-> "Personalized Learning Roadmap",
               total_skills_to_develop |-> Len(skills_list),
               estimated_weeks |-> week_count,
               weeks |-> [ week_num \in 1..week_count |->
                             WeekPlan(skills_list, week_num, week_count) ] ]

----------------------------------------------------------------------------
(* roles.py *)

\* roles.py: role name -> required levels (in tenths), in the order written
roles ==
    "Data Scientist" :>
        << [ skill |-> "Python", required |-> 80 ],
           [ skill |-> "Statistics", required |-> 80 ],
           [ skill |-> "Machine Learning", required |-> 80 ],
           [ skill |-> "SQL", required |-> 70 ],
           [ skill |-> "Data Visualization", required |-> 60 ],
           [ skill |-> "Deep Learning", required |-> 50 ] >> @@
    "ML Engineer" :>
        << [ skill |-> "Python", required |-> 90 ],
           [ skill |-> "Machine Learning", required |-> 90 ],
           [ skill |-> "Deep Learning", required |-> 80 ],
           [ skill |-> "Docker", required |-> 60 ],
           [ skill |-> "System Design", required |-> 60 ],
           [ skill |-> "Statistics", required |-> 70 ] >> @@
    "Frontend Developer" :>
        << [ skill |-> "JavaScript", required |-> 90 ],
           [ skill |-> "React", required |-> 80 ],
           [ skill |-> "CSS", required |-> 70 ],
           [ skill |-> "Git", required |-> 70 ],
           [ skill |-> "Testing", required |-> 60 ],
           [ skill |-> "APIs", required |-> 60 ] >> @@
    "Backend Developer" :>
        << [ skill |-> "Python", required |-> 80 ],
           [ skill |-> "SQL", required |-> 80 ],
           [ skill |-> "APIs", required |-> 80 ],
           [ skill |-> "Docker", required |-> 60 ],
           [ skill |-> "System Design", required |-> 70 ],
           [ skill |-> "Testing", required |-> 70 ],
           [ skill |-> "Git", required |-> 70 ] >> @@
    "Full Stack Developer" :>
        << [ skill |-> "JavaScript", required |-> 80 ],
           [ skill |-> "React", required |-> 70 ],
           [ skill |-> "Python", required |-> 70 ],
           [ skill |-> "SQL", required |-> 70 ],
           [ skill |-> "APIs", required |-> 70 ],
           [ skill |-> "Git", required |-> 70 ],
           [ skill |-> "Docker", required |-> 50 ] >> @@
    "AI Engineer" :>
        << [ skill |-> "Python", required |-> 90 ],
           [ skill |-> "Deep Learning", required |-> 90 ],
           [ skill |-> "Machine Learning", required |-> 90 ],
           [ skill |-> "NLP", required |-> 70 ],
           [ skill |-> "Computer Vision", required |-> 60 ],
           [ skill |-> "Docker", required |-> 60 ],
           [ skill |-> "System Design", required |-> 60 ] >> @@
    "Data Analyst" :>
        << [ skill |-> "SQL", required |-> 80 ],
           [ skill |-> "Python", required |-> 60 ],
           [ skill |-> "Statistics", required |-> 70 ],
           [ skill |-> "Data Visualization", required |-> 80 ],
           [ skill |-> "Machine Learning", required |-> 40 ] >> @@
    "DevOps Engineer" :>
        << [ skill |-> "Docker", required |-> 90 ],
           [ skill |-> "Cloud Computing", required |-> 80 ],
           [ skill |-> "Git", required |-> 80 ],
           [ skill |-> "Python", required |-> 60 ],
           [ skill |-> "System Design", required |-> 70 ],
           [ skill |-> "Testing", required |-> 60 ] >>

\* every skill that appears in a role
RoleSkillNames ==
    UNION { { roles[name][i].skill : i \in 1..Len(roles[name]) } : name \in DOMAIN roles }

----------------------------------------------------------------------------
(* The quiz engine on its own: generate_adaptive_quiz on bounded inputs,   *)
(* then score_quiz on the quiz it returned and any answer record.          *)

\* skill names handed in: all four pools filled (Python), no expert pool
\* (Git), not in the bank at all (Rust)
QuizSkills == { "Python", "Git", "Rust" }

\* user levels handed in, in tenths
QuizLevels == { 0, 30, 35, 50, 55, 70, 75, 100 }

SeqsUpTo(S, n) == UNION { [ 1..k -> S ] : k \in 0..n }

Range(f) == { f[x] : x \in DOMAIN f }

PartialMaps(D, V) == UNION { [ S -> V ] : S \in SUBSET D }

\* the options chosen on an item: the correct one and the one after it
AnswerChoices(q) == { q.correct_index, (q.correct_index + 1) % q.options }

\* the answer records given for a quiz: each item unanswered or answered
AnswerRecords(items) ==
    { a \in PartialMaps({ items[i].id : i \in 1..Len(items) }, 0..3) :
        \A i \in 1..Len(items) :
            items[i].id \in DOMAIN a => a[items[i].id] \in AnswerChoices(items[i]) }

SkillsOf(items) == { items[i].skill : i \in 1..Len(items) }

Idle ==
    /\ role_requirements = << >>
    /\ gaps = << >>
    /\ readiness = 0
    /\ strengths = << >>
    /\ weeks = 4
    /\ roadmap = NoRoadmap
    /\ stale_answers = FALSE
    /\ quiz_mode = FALSE
    /\ submits = 0

InitQuiz ==
    /\ role_skills \in SeqsUpTo(QuizSkills, MaxRoleSkills)
    /\ questions_per_skill \in 1..MaxItems
    /\ Len(role_skills) * questions_per_skill <= MaxItems
    /\ user_scores \in PartialMaps(Range(role_skills), QuizLevels)
    /\ quiz = << >>
    /\ quiz_responses = << >>
    /\ results = << >>
    /\ Idle
    /\ pc = "start"

GenerateQuiz ==
    /\ pc = "start"
    /\ quiz' \in generate_adaptive_quiz(role_skills, user_scores, questions_per_skill)
    /\ pc' = "generated"
    /\ UNCHANGED << role_skills, questions_per_skill, user_scores, quiz_responses,
                    results, role_requirements, gaps, readiness, quiz_mode, submits, strengths,
                    weeks, roadmap, stale_answers >>

ScoreQuiz ==
    /\ pc = "generated"
    /\ \E answers \in AnswerRecords(quiz), fp \in [ SkillsOf(quiz) -> BOOLEAN ] :
          /\ quiz_responses' = answers
          /\ results' = score_quiz(quiz, answers, fp)
    /\ pc' = "scored"
    /\ UNCHANGED << role_skills, questions_per_skill, user_scores, quiz,
                    role_requirements, gaps, readiness, quiz_mode, submits, strengths,
                    weeks, roadmap, stale_answers >>

NextQuiz == GenerateQuiz \/ ScoreQuiz

SpecQuiz == InitQuiz /\ [][NextQuiz]_vars

----------------------------------------------------------------------------
(* app.py: the session.  A role is selected; the user edits the            *)
(* self-assessment, extracts skills from a resume and takes quizzes.       *)

\* most quiz submissions followed in one session
MaxSubmits == 1

\* the "Questions per skill" slider: st.slider(..., 1, 3, 2)
MaxQuestionsPerSkill == 3

\* requirement maps considered: that of Data Scientist in roles.py cut to
\* {Python: 8}; one with a skill of the bank and a skill the bank has no
\* questions for, {Git: 7, Rust: 5}; and one whose only skill has no
\* questions, {Rust: 6} (the empty quiz lines 313-318 of app.py handle)
SessionRoles ==
    { << [ skill |-> "Python", required |-> 80 ] >>,
      << [ skill |-> "Git", required |-> 70 ], [ skill |-> "Rust", required |-> 50 ] >>,
      << [ skill |-> "Rust", required |-> 60 ] >> }

\* values the self-assessment slider is moved to (0.0 .. 10.0, step 0.5)
SliderValues == { 0, 35 }

\* levels the resume extraction reports (4 .. 9)
ResumeLevels == { 90 }

\* list(reqs.keys())
ReqKeys(reqs) == [ i \in 1..Len(reqs) |-> reqs[i].skill ]

InitSession ==
    /\ role_requirements \in SessionRoles
    /\ user_scores = << >>
    /\ quiz_mode = FALSE
    /\ quiz_responses = << >>
    /\ quiz = << >>
    /\ role_skills = << >>
    /\ questions_per_skill = 1
    /\ results = << >>
    /\ gaps = << >>
    /\ readiness = 0
    /\ strengths = << >>
    /\ weeks = 4
    /\ roadmap = NoRoadmap
    /\ stale_answers = FALSE
    /\ submits = 0
    /\ pc = "session"

\* Self-Assessment page: every slider is written back, a skill without a
\* level shows 5; the user has moved the slider of `skill` to `val`
SelfAssessment(skill, val) ==
    /\ pc = "session"
    /\ skill \in Range(ReqKeys(role_requirements))
    /\ user_scores' =
           [ s \in DOMAIN user_scores \cup Range(ReqKeys(role_requirements)) |->
               IF s = skill THEN val
               ELSE GetLevel(user_scores, s, DefaultLevel) ]
    /\ UNCHANGED << role_skills, questions_per_skill, quiz, quiz_responses, results,
                    role_requirements, gaps, readiness, quiz_mode, submits, pc, strengths,
                    weeks, roadmap, stale_answers >>

\* Resume extraction: user_scores[sk] = max(user_scores.get(sk, 0), lv)
ExtractResume(kw_skills) ==
    /\ pc = "session"
    /\ user_scores' =
           [ s \in DOMAIN user_scores \cup DOMAIN kw_skills |->
               IF s \in DOMAIN kw_skills
               THEN Max(GetScore(user_scores, s), kw_skills[s])
               ELSE user_scores[s] ]
    /\ UNCHANGED << role_skills, questions_per_skill, quiz, quiz_responses, results,
                    role_requirements, gaps, readiness, quiz_mode, submits, pc, strengths,
                    weeks, roadmap, stale_answers >>

\* faulty variant: Start Quiz keeps the answers recorded so far
StartQuizKeepAnswers(qps) ==
    /\ pc = "session"
    /\ ~quiz_mode
    /\ submits < MaxSubmits
    /\ Len(role_requirements) * qps <= MaxItems
    /\ role_skills' = ReqKeys(role_requirements)
    /\ questions_per_skill' = qps
    /\ quiz' \in generate_adaptive_quiz(ReqKeys(role_requirements), user_scores, qps)
    /\ quiz_mode' = TRUE
    /\ stale_answers' = (quiz_responses # << >>)
    /\ UNCHANGED << user_scores, quiz_responses, results, role_requirements, gaps,
                    readiness, submits, pc, strengths, weeks, roadmap >>

\* Adaptive Quiz page, not in quiz mode: the Start Quiz button
StartQuiz(qps) ==
    /\ pc = "session"
    /\ ~quiz_mode
    /\ submits < MaxSubmits
    /\ Len(role_requirements) * qps <= MaxItems
    /\ role_skills' = ReqKeys(role_requirements)
    /\ questions_per_skill' = qps
    /\ quiz' \in generate_adaptive_quiz(ReqKeys(role_requirements), user_scores, qps)
    /\ quiz_responses' = << >>
    /\ quiz_mode' = TRUE
    /\ stale_answers' = (quiz_responses # << >>)
    /\ UNCHANGED << user_scores, results, role_requirements, gaps, readiness, submits, pc,
                    strengths, weeks, roadmap >>

\* quiz mode with an empty quiz: the Back button
Back ==
    /\ pc = "session"
    /\ quiz_mode
    /\ quiz = << >>
    /\ quiz_mode' = FALSE
    /\ UNCHANGED << role_skills, questions_per_skill, user_scores, quiz, quiz_responses,
                    results, role_requirements, gaps, readiness, submits, pc, strengths,
                    weeks, roadmap, stale_answers >>

\* quiz mode: the radio of item i is set to option `chosen`
AnswerQuestion(i, chosen) ==
    /\ pc = "session"
    /\ quiz_mode
    /\ quiz # << >>
    /\ i \in 1..Len(quiz)
    /\ chosen \in 0..(quiz[i].options - 1)
    /\ quiz_responses' =
           [ qid \in DOMAIN quiz_responses \cup { quiz[i].id } |->
               IF qid = quiz[i].id THEN chosen ELSE quiz_responses[qid] ]
    /\ UNCHANGED << role_skills, questions_per_skill, user_scores, quiz, results,
                    role_requirements, gaps, readiness, quiz_mode, submits, pc, strengths,
                    weeks, roadmap, stale_answers >>

\* faulty variant: the sum of the two levels is divided by 4
BlendLevelQuarter(scores, skill, score, up) ==
    LET prev == GetScore(scores, skill)
    IN  IF prev # 0 THEN Round1(prev + score, 4, up) ELSE score

\* lines 375-376: prev = user_scores.get(skill, 0);
\* new = round((prev + score) / 2, 1) if prev else score
BlendLevel(scores, skill, score, up) ==
    LET prev == GetScore(scores, skill)
    IN  IF prev # 0 THEN Round1(prev + score, 2, up) ELSE score

\* faulty variant: Submit scores whatever has been answered, even of an empty quiz
SubmitQuizUnguarded ==
    /\ pc = "session"
    /\ quiz_mode
    /\ \E fp \in [ SkillsOf(quiz) -> BOOLEAN ], up \in [ SkillsOf(quiz) -> BOOLEAN ] :
          LET res == score_quiz(quiz, quiz_responses, fp)
          IN  /\ results' = res
              /\ user_scores' =
                     [ s \in DOMAIN user_scores \cup DOMAIN res |->
                         IF s \in DOMAIN res
                         THEN BlendLevel(user_scores, s, res[s].score_0_10, up[s])
                         ELSE user_scores[s] ]
    /\ quiz_mode' = FALSE
    /\ submits' = submits + 1
    /\ UNCHANGED << role_skills, questions_per_skill, quiz, quiz_responses,
                    role_requirements, gaps, readiness, pc, strengths,
                    weeks, roadmap, stale_answers >>

\* quiz mode: the Submit Quiz button, enabled once answered >= total
SubmitQuiz ==
    /\ pc = "session"
    /\ quiz_mode
    /\ quiz # << >>
    /\ ~(Cardinality(DOMAIN quiz_responses) < Len(quiz))
    /\ \E fp \in [ SkillsOf(quiz) -> BOOLEAN ], up \in [ SkillsOf(quiz) -> BOOLEAN ] :
          LET res == score_quiz(quiz, quiz_responses, fp)
          IN  /\ results' = res
              /\ user_scores' =
                     [ s \in DOMAIN user_scores \cup DOMAIN res |->
                         IF s \in DOMAIN res
                         THEN BlendLevel(user_scores, s, res[s].score_0_10, up[s])
                         ELSE user_scores[s] ]
    /\ quiz_mode' = FALSE
    /\ submits' = submits + 1
    /\ UNCHANGED << role_skills, questions_per_skill, quiz, quiz_responses,
                    role_requirements, gaps, readiness, pc, strengths,
                    weeks, roadmap, stale_answers >>

\* faulty variant: Cancel Quiz also throws the stored levels away
CancelQuizForgetting ==
    /\ pc = "session"
    /\ quiz_mode
    /\ quiz # << >>
    /\ quiz_mode' = FALSE
    /\ user_scores' = << >>
    /\ UNCHANGED << role_skills, questions_per_skill, quiz, quiz_responses,
                    results, role_requirements, gaps, readiness, submits, pc, strengths,
                    weeks, roadmap, stale_answers >>

\* quiz mode: the Cancel Quiz button
CancelQuiz ==
    /\ pc = "session"
    /\ quiz_mode
    /\ quiz # << >>
    /\ quiz_mode' = FALSE
    /\ UNCHANGED << role_skills, questions_per_skill, user_scores, quiz, quiz_responses,
                    results, role_requirements, gaps, readiness, submits, pc, strengths,
                    weeks, roadmap, stale_answers >>

Next ==
    \/ \E skill \in Range(ReqKeys(role_requirements)), val \in SliderValues :
          SelfAssessment(skill, val)
    \/ \E kw_skills \in PartialMaps(Range(ReqKeys(role_requirements)), ResumeLevels) :
          ExtractResume(kw_skills)
    \/ \E qps \in 1..MaxQuestionsPerSkill : StartQuiz(qps)
    \/ \E i \in 1..Len(quiz) : \E chosen \in AnswerChoices(quiz[i]) : AnswerQuestion(i, chosen)
    \/ SubmitQuiz
    \/ CancelQuiz
    \/ Back

Spec == InitSession /\ [][Next]_vars

----------------------------------------------------------------------------
(* Claims on the quiz engine *)

ItemsOf(items, skill) == { i \in 1..Len(items) : items[i].skill = skill }

Occurrences(skills, skill) == Cardinality({ k \in 1..Len(skills) : skills[k] = skill })

Tier(q) == DifficultyIndex(q.difficulty)

AllPoolsFilled(skill) ==
    /\ skill \in DOMAIN QUESTION_BANK
    /\ \A i \in 1..Len(DIFFICULTY_ORDER) : Pool(skill, DIFFICULTY_ORDER[i]) # << >>

NonDecreasingTiers(items, skill) ==
    \A i, j \in ItemsOf(items, skill) : i < j => Tier(items[i]) <= Tier(items[j])

\* C1 as stated: in every generated quiz the tiers of the items of a skill
\* listed once never decrease in emission order, for every skill of the bank.
C1_RatchetEverySkill ==
    pc # "start" =>
        \A skill \in Range(role_skills) :
            Occurrences(role_skills, skill) = 1 => NonDecreasingTiers(quiz, skill)

\* C1 amended: in every generated quiz the tiers of the items of a skill
\* listed once never decrease in emission order, provided the bank holds a
\* non-empty pool for that skill at each of the four tiers.
C1_RatchetFilledSkill ==
    pc # "start" =>
        \A skill \in Range(role_skills) :
            (Occurrences(role_skills, skill) = 1 /\ AllPoolsFilled(skill))
                => NonDecreasingTiers(quiz, skill)

\* a quiz in which a fully covered skill, listed once, climbed at least two tiers
C1_Witness ==
    /\ pc = "generated"
    /\ \E skill \in Range(role_skills) :
          /\ Occurrences(role_skills, skill) = 1
          /\ AllPoolsFilled(skill)
          /\ \E i, j, k \in ItemsOf(quiz, skill) :
                Tier(quiz[i]) < Tier(quiz[j]) /\ Tier(quiz[j]) < Tier(quiz[k])

\* items of a skill whose recorded answer is the correct option
CorrectItems(items, answers, skill) ==
    { i \in ItemsOf(items, skill) : GetAnswer(answers, items[i].id) = items[i].correct_index }

\* C3: score_0_10 is min(10, round(2 + 2.5 * tier_index(max_difficulty)
\* + 2 * correct / total, 1)): the tenth nearest to that value, capped at 10;
\* it lies in 2.0..10, is 2.0 when no item of the skill is answered correctly
\* and 10 when every item is expert-tier and answered correctly.
C3_ScoreFormula ==
    pc = "scored" =>
        \A skill \in DOMAIN results :
            LET res == results[skill]
                num == (20 + 25 * DifficultyIndex(res.max_difficulty)) * res.total
                           + 20 * res.correct
            IN  /\ \E u \in 0..120 :
                      /\ 2 * u * res.total <= 2 * num + res.total
                      /\ 2 * u * res.total >= 2 * num - res.total
                      /\ res.score_0_10 = Min(100, u)
                /\ res.score_0_10 >= 20
                /\ res.score_0_10 <= 100
                /\ CorrectItems(quiz, quiz_responses, skill) = {} => res.score_0_10 = 20
                /\ ( /\ \A i \in ItemsOf(quiz, skill) : quiz[i].difficulty = "expert"
                     /\ CorrectItems(quiz, quiz_responses, skill) = ItemsOf(quiz, skill) )
                       => res.score_0_10 = 100

\* a scoring in which a skill got a fractional accuracy bonus: 1 of 3 correct
C3_Witness ==
    /\ pc = "scored"
    /\ \E skill \in DOMAIN results :
          /\ results[skill].total = 3
          /\ results[skill].correct = 1
          /\ results[skill].max_difficulty = "intermediate"
          /\ results[skill].score_0_10 = 52

\* C4: max_difficulty is the highest tier among the skill's correctly answered
\* items, whatever their order, and beginner when none was answered correctly.
C4_MaxDifficulty ==
    pc = "scored" =>
        \A skill \in DOMAIN results :
            LET right == CorrectItems(quiz, quiz_responses, skill)
            IN  IF right = {}
                THEN results[skill].max_difficulty = "beginner"
                ELSE /\ \E i \in right : results[skill].max_difficulty = quiz[i].difficulty
                     /\ \A i \in right :
                           Tier(quiz[i]) <= DifficultyIndex(results[skill].max_difficulty)

\* a scoring in which the highest correctly answered item came before a lower
\* correct one, and a still higher item was answered wrongly or not at all
C4_Witness ==
    /\ pc = "scored"
    /\ \E skill \in DOMAIN results :
          /\ \E i, j \in CorrectItems(quiz, quiz_responses, skill) :
                i < j /\ Tier(quiz[i]) > Tier(quiz[j])
          /\ \E k \in ItemsOf(quiz, skill) \ CorrectItems(quiz, quiz_responses, skill) :
                Tier(quiz[k]) > DifficultyIndex(results[skill].max_difficulty)

\* C5: total counts the skill's items, correct those of them whose id maps to
\* the correct index, so 0 <= correct <= total and total >= 1, and the result
\* has exactly one entry per distinct skill of the quiz.
C5_Counts ==
    pc = "scored" =>
        /\ DOMAIN results = SkillsOf(quiz)
        /\ \A skill \in DOMAIN results :
              /\ results[skill].total = Cardinality(ItemsOf(quiz, skill))
              /\ results[skill].correct =
                     Cardinality(CorrectItems(quiz, quiz_responses, skill))
              /\ results[skill].correct >= 0
              /\ results[skill].correct <= results[skill].total
              /\ results[skill].total >= 1

\* a scoring of two skills with an unanswered item, a wrong one and a correct one
C5_Witness ==
    /\ pc = "scored"
    /\ Cardinality(DOMAIN results) = 2
    /\ \E i \in 1..Len(quiz) : quiz[i].id \notin DOMAIN quiz_responses
    /\ \E skill \in DOMAIN results :
          /\ results[skill].correct = 1
          /\ results[skill].total = 2
          /\ \E i \in ItemsOf(quiz, skill) :
                /\ quiz[i].id \in DOMAIN quiz_responses
                /\ quiz_responses[quiz[i].id] # quiz[i].correct_index

\* the first item of a skill in a quiz
FirstItemOf(items, skill) ==
    CHOOSE i \in ItemsOf(items, skill) : \A j \in ItemsOf(items, skill) : i <= j

\* the threshold table: <= 3 beginner, <= 5 intermediate, <= 7 advanced, else expert
StartingTier(level) ==
    CASE level <= 30 -> "beginner"
      [] level > 30 /\ level <= 50 -> "intermediate"
      [] level > 50 /\ level <= 70 -> "advanced"
      [] level > 70 -> "expert"

\* the level the generator assumes for a skill: 5 when absent from user_levels
AssumedLevel(skill) == IF skill \in DOMAIN user_scores THEN user_scores[skill] ELSE 50

\* C13: the starting tier of a skill is beginner for level <= 3, intermediate
\* for 3 < level <= 5, advanced for 5 < level <= 7 and expert above 7, on the
\* level as given (3.5 starts at intermediate), level 5 being assumed for a
\* skill absent from user_levels; when the bank has a non-empty pool for the
\* skill at that tier, the first item emitted for the skill has that tier.
C13_StartingTier ==
    pc # "start" =>
        \A skill \in Range(role_skills) \cap DOMAIN QUESTION_BANK :
            Pool(skill, StartingTier(AssumedLevel(skill))) # << >> =>
                /\ ItemsOf(quiz, skill) # {}
                /\ quiz[FirstItemOf(quiz, skill)].difficulty = StartingTier(AssumedLevel(skill))

\* a quiz for a skill at level 3.5, which starts at intermediate, and a skill
\* absent from user_levels, which starts at intermediate too
C13_Witness ==
    /\ pc = "generated"
    /\ \E s, t \in Range(role_skills) \cap DOMAIN QUESTION_BANK :
          /\ s \in DOMAIN user_scores /\ user_scores[s] = 35
          /\ quiz[FirstItemOf(quiz, s)].difficulty = "intermediate"
          /\ t \notin DOMAIN user_scores
          /\ quiz[FirstItemOf(quiz, t)].difficulty = "intermediate"

\* one tier above d, expert staying expert
TierAbove(d) ==
    CASE d = "beginner" -> "intermediate"
      [] d = "intermediate" -> "advanced"
      [] d = "advanced" -> "expert"
      [] d = "expert" -> "expert"

\* the tiers of a skill that have questions, lowest first in DIFFICULTY_ORDER
FilledTiers(skill) ==
    { d \in Range(DIFFICULTY_ORDER) :
        d \in DOMAIN QUESTION_BANK[skill] /\ QUESTION_BANK[skill][d] # << >> }

LowestFilledTier(skill) ==
    CHOOSE d \in FilledTiers(skill) :
        \A e \in FilledTiers(skill) : DifficultyIndex(d) <= DifficultyIndex(e)

\* item p opens the draws of its skill
OpensSkill(p) ==
    \/ p = 1
    \/ quiz[p - 1].skill # quiz[p].skill
    \/ (p - 1) % questions_per_skill = 0

\* C14: each draw uses the pool of the current tier when it is non-empty and
\* otherwise the lowest non-empty pool in the order beginner, intermediate,
\* advanced, expert, the item recording the tier actually used; a skill whose
\* four pools are all empty emits nothing; after an emitted draw the current
\* tier of the next draw of the skill is one tier above the tier used, expert
\* staying expert.
C14_DrawRule ==
    pc # "start" =>
        /\ \A p \in 1..Len(quiz) :
              LET skill == quiz[p].skill
                  current == IF OpensSkill(p)
                             THEN StartingTier(AssumedLevel(skill))
                             ELSE TierAbove(quiz[p - 1].difficulty)
              IN  /\ FilledTiers(skill) # {}
                  /\ quiz[p].difficulty = (IF current \in FilledTiers(skill)
                                           THEN current
                                           ELSE LowestFilledTier(skill))
        /\ \A skill \in Range(role_skills) \cap DOMAIN QUESTION_BANK :
              FilledTiers(skill) = {} => ItemsOf(quiz, skill) = {}

\* a quiz in which a skill without expert questions fell back from expert to
\* beginner after an advanced item, and another skill stayed at expert
C14_Witness ==
    /\ pc = "generated"
    /\ \E p, r \in 2..Len(quiz) :
          /\ ~OpensSkill(p)
          /\ quiz[p - 1].difficulty = "advanced" /\ quiz[p].difficulty = "beginner"
          /\ ~OpensSkill(r)
          /\ quiz[r - 1].difficulty = "expert" /\ quiz[r].difficulty = "expert"

\* C15: the i-th item (counting from 0) has id = i = display_order, so ids
\* are pairwise distinct and strictly increasing in list order, also when
\* skills were skipped and when a skill is listed twice.
C15_Ids ==
    pc # "start" =>
        /\ \A i \in 1..Len(quiz) : quiz[i].id = i - 1 /\ quiz[i].display_order = i - 1
        /\ \A i, j \in 1..Len(quiz) : i < j => quiz[i].id < quiz[j].id

\* a quiz of several items whose first input skill was skipped
C15_Witness ==
    /\ pc = "generated"
    /\ Len(role_skills) = 2
    /\ role_skills[1] \notin DOMAIN QUESTION_BANK
    /\ Len(quiz) >= 2
    /\ quiz[1].id = 0
    /\ quiz[Len(quiz)].id = Len(quiz) - 1

\* the skill has at least one non-empty pool in the bank
HasQuestions(skill) == skill \in DOMAIN QUESTION_BANK /\ FilledTiers(skill) # {}

\* the input skills that have questions, in input order
Covered == SelectSeq(role_skills, HasQuestions)

\* C16: the quiz is the concatenation, in input order, of one block of
\* exactly questions_per_skill items per input skill that has a non-empty pool;
\* skills absent from the bank contribute nothing, so its length is
\* questions_per_skill times the number of covered input skills.
C16_Blocks ==
    pc # "start" =>
        /\ Len(quiz) = questions_per_skill * Len(Covered)
        /\ \A p \in 1..Len(quiz) :
              quiz[p].skill = Covered[((p - 1) \div questions_per_skill) + 1]

\* two covered skills, two questions each, the one without expert questions
\* starting at expert
C16_Witness ==
    /\ pc = "generated"
    /\ role_skills = << "Git", "Python" >>
    /\ AssumedLevel("Git") = 75
    /\ questions_per_skill = 2
    /\ Len(quiz) = 4
    /\ quiz[2].skill = "Git"
    /\ quiz[3].skill = "Python"

\* C17: the quiz is empty exactly when no skill of the input list has a
\* non-empty pool in the bank, the empty skill list included, for every
\* questions_per_skill >= 1 and every user_levels.
C17_EmptyQuiz ==
    pc # "start" =>
        (quiz = << >> <=> \A i \in 1..Len(role_skills) : ~HasQuestions(role_skills[i]))

\* an empty quiz for a non-empty skill list that has a level for its skill
C17_Witness ==
    /\ pc = "generated"
    /\ role_skills # << >>
    /\ user_scores # << >>
    /\ questions_per_skill >= 2
    /\ quiz = << >>

\* C18: every item is a question of the bank's pool for its skill and its
\* recorded difficulty, with question, options and correct index as in the
\* bank; every question of the bank, hence every item, has at least 2 options
\* and a correct index within them.
C18_ItemsFromBank ==
    /\ \A skill \in DOMAIN QUESTION_BANK :
          \A d \in DOMAIN QUESTION_BANK[skill] :
              \A k \in 1..Len(QUESTION_BANK[skill][d]) :
                  LET question == QUESTION_BANK[skill][d][k]
                  IN  question.opts >= 2 /\ question.ans >= 0 /\ question.ans < question.opts
    /\ pc # "start" =>
          \A p \in 1..Len(quiz) :
              /\ quiz[p].skill \in DOMAIN QUESTION_BANK
              /\ quiz[p].difficulty \in DOMAIN QUESTION_BANK[quiz[p].skill]
              /\ \E k \in 1..Len(QUESTION_BANK[quiz[p].skill][quiz[p].difficulty]) :
                    LET question == QUESTION_BANK[quiz[p].skill][quiz[p].difficulty][k]
                    IN  /\ quiz[p].question = question.q
                        /\ quiz[p].options = question.opts
                        /\ quiz[p].correct_index = question.ans
              /\ quiz[p].options >= 2
              /\ quiz[p].correct_index >= 0
              /\ quiz[p].correct_index < quiz[p].options

\* a quiz holding the same question twice and a question that is not the
\* first of its pool
C18_Witness ==
    /\ pc = "generated"
    /\ \E p, r \in 1..Len(quiz) :
          /\ p < r
          /\ quiz[p].skill = quiz[r].skill
          /\ quiz[p].difficulty = quiz[r].difficulty
          /\ quiz[p].question = quiz[r].question
    /\ \E p \in 1..Len(quiz) : quiz[p].question = 2 /\ quiz[p].correct_index = 2

\* the only skill of the quiz has at least three items, the last of a higher
\* tier than every other, and the record answers the last one alone correctly
OnlyLastCorrect(skill) ==
    /\ SkillsOf(quiz) = { skill }
    /\ Len(quiz) >= 3
    /\ CorrectItems(quiz, quiz_responses, skill) = { Len(quiz) }
    /\ \A i \in 1..(Len(quiz) - 1) : Tier(quiz[i]) < Tier(quiz[Len(quiz)])

\* C20: score_0_10 is not monotone in the number of correct answers: for a
\* quiz of one skill whose last item has the highest tier, the record that
\* answers only that item correctly scores strictly higher than some record
\* that answers strictly more items correctly, all of them at lower tiers.
C20_NotMonotone ==
    pc = "scored" =>
        \A skill \in DOMAIN results :
            OnlyLastCorrect(skill) =>
                \E other \in AnswerRecords(quiz) :
                    LET right == CorrectItems(quiz, other, skill)
                    IN  /\ Cardinality(right) > 1
                        /\ \A i \in right : Tier(quiz[i]) < Tier(quiz[Len(quiz)])
                        /\ \A fp \in [ { skill } -> BOOLEAN ] :
                              score_quiz(quiz, other, fp)[skill].score_0_10
                                  < results[skill].score_0_10

\* Python from level 0, three questions (beginner, intermediate, advanced),
\* only the advanced one answered correctly: 2 + 5 + 2/3 = 7.7, against 5.8
\* for the first two answered correctly
C20_Witness ==
    /\ pc = "scored"
    /\ role_skills = << "Python" >>
    /\ questions_per_skill = 3
    /\ OnlyLastCorrect("Python")
    /\ quiz[3].difficulty = "advanced"
    /\ results["Python"].correct = 1
    /\ results["Python"].score_0_10 = 77
    /\ \E other \in AnswerRecords(quiz) :
          /\ CorrectItems(quiz, other, "Python") = { 1, 2 }
          /\ score_quiz(quiz, other, [ s \in { "Python" } |-> TRUE ])["Python"].score_0_10 = 58

\* C23 as stated: for every skill that appears in a role of roles.py and
\* every difficulty tier, the question bank holds at least one question for
\* that skill at that tier; stated for the role skills a quiz is generated for.
C23_RoleSkillsFullyCovered ==
    \A skill \in Range(role_skills) \cap RoleSkillNames :
        /\ skill \in DOMAIN QUESTION_BANK
        /\ \A i \in 1..Len(DIFFICULTY_ORDER) : Pool(skill, DIFFICULTY_ORDER[i]) # << >>

----------------------------------------------------------------------------
(* The gap model on its own: calculate_skill_gaps,                         *)
(* calculate_readiness_score and identify_strength_areas on bounded inputs, *)
(* called in the order of the                                              *)
(* app's overview (app.py lines 244-246).                                  *)

\* most skills of a requirement map
MaxSkills == 3

\* the keys of the requirement map, in insertion order
GapSkills == << "SQL", "Python", "Git", "Docker", "React" >>

\* required levels and user levels handed in, in tenths
GapRequired == { 0, 5, 50, 80 }
GapLevels == { 0, 45, 80, 100 }

InitGap ==
    /\ \E n \in 0..MaxSkills :
          /\ role_requirements \in
                 { [ i \in 1..n |-> [ skill |-> GapSkills[i], required |-> r[i] ] ] :
                     r \in [ 1..n -> GapRequired ] }
          /\ user_scores \in PartialMaps({ GapSkills[i] : i \in 1..n }, GapLevels)
    /\ gaps = << >>
    /\ readiness = 0
    /\ strengths = << >>
    /\ weeks = 4
    /\ roadmap = NoRoadmap
    /\ stale_answers = FALSE
    /\ role_skills = << >>
    /\ questions_per_skill = 1
    /\ quiz = << >>
    /\ quiz_responses = << >>
    /\ results = << >>
    /\ quiz_mode = FALSE
    /\ submits = 0
    /\ pc = "start"

CalculateSkillGaps ==
    /\ pc = "start"
    /\ \E fp \in [ 1..Len(role_requirements) -> BOOLEAN ] :
          gaps' = calculate_skill_gaps(user_scores, role_requirements, fp)
    /\ pc' = "gaps"
    /\ UNCHANGED << role_skills, questions_per_skill, user_scores, quiz, quiz_responses,
                    results, role_requirements, readiness, quiz_mode, submits, strengths,
                    weeks, roadmap, stale_answers >>

CalculateReadinessScore ==
    /\ pc = "gaps"
    /\ \E up \in BOOLEAN :
          readiness' = calculate_readiness_score(user_scores, role_requirements, up)
    /\ pc' = "readiness"
    /\ UNCHANGED << role_skills, questions_per_skill, user_scores, quiz, quiz_responses,
                    results, role_requirements, gaps, quiz_mode, submits, strengths,
                    weeks, roadmap, stale_answers >>

IdentifyStrengthAreas ==
    /\ pc = "readiness"
    /\ strengths' = identify_strength_areas(user_scores, role_requirements)
    /\ pc' = "strengths"
    /\ UNCHANGED << role_skills, questions_per_skill, user_scores, quiz, quiz_responses,
                    results, role_requirements, gaps, readiness, quiz_mode, submits,
                    weeks, roadmap, stale_answers >>

NextGap == CalculateSkillGaps \/ CalculateReadinessScore \/ IdentifyStrengthAreas

SpecGap == InitGap /\ [][NextGap]_vars

----------------------------------------------------------------------------
(* Claims on the gap model *)

GapsDone == pc \in { "gaps", "readiness", "strengths" }

\* the position of a skill in role_requirements
ReqIndex(skill) == CHOOSE i \in 1..Len(role_requirements) : role_requirements[i].skill = skill

\* C6: every skill of role_requirements has a record with current = the user's
\* level (0 when missing), gap = max(required - current, 0) and priority_score
\* the tenth nearest to gap * required / 10, both >= 0; the result has exactly
\* the keys of role_requirements; required {SQL: 8}, user {SQL: 0} gives gap 8
\* and priority_score 6.4.
C6_GapRecords ==
    GapsDone =>
        /\ Len(gaps) = Len(role_requirements)
        /\ { gaps[i].skill : i \in 1..Len(gaps) }
               = { role_requirements[i].skill : i \in 1..Len(role_requirements) }
        /\ \A i \in 1..Len(gaps) :
              LET rec == gaps[i]
                  required == role_requirements[ReqIndex(rec.skill)].required
                  current == IF rec.skill \in DOMAIN user_scores
                             THEN user_scores[rec.skill] ELSE 0
              IN  /\ rec.required = required
                  /\ rec.current = current
                  /\ rec.gap = (IF required > current THEN required - current ELSE 0)
                  /\ 100 * rec.priority_score <= rec.gap * required + 50
                  /\ 100 * rec.priority_score >= rec.gap * required - 50
                  /\ rec.gap >= 0
                  /\ rec.priority_score >= 0
        /\ ( /\ role_requirements = << [ skill |-> "SQL", required |-> 80 ] >>
             /\ user_scores = [ s \in { "SQL" } |-> 0 ] )
              => /\ gaps[1].gap = 80
                 /\ gaps[1].priority_score = 64

\* a result with a skill above its requirement, a skill missing from
\* user_scores (the claim's example: required 8, level 0, priority 6.4) and a
\* fractional gap
C6_Witness ==
    /\ GapsDone
    /\ Len(gaps) = 3
    /\ \E i, j, k \in 1..3 :
          /\ gaps[i].current > gaps[i].required /\ gaps[i].gap = 0
          /\ gaps[j].skill \notin DOMAIN user_scores
          /\ gaps[j].gap = 80 /\ gaps[j].priority_score = 64
          /\ gaps[k].gap = 35 /\ gaps[k].priority_score = 28

\* C7 as stated: for a skill with required > 0, priority_score is 0 exactly
\* when gap is 0.
C7_PriorityZeroIffGapZero ==
    GapsDone =>
        \A i \in 1..Len(gaps) :
            gaps[i].required > 0 => (gaps[i].priority_score = 0 <=> gaps[i].gap = 0)

\* C7 amended: for a skill with required > 0, gap = 0 gives priority_score 0,
\* and priority_score is 0 with gap > 0 only when gap * required <= 0.5, where
\* gap * required / 10 rounds to 0.0 (in tenths: gap * required <= 50).
C7_PriorityZeroRounded ==
    GapsDone =>
        \A i \in 1..Len(gaps) :
            gaps[i].required > 0 =>
                /\ gaps[i].gap = 0 => gaps[i].priority_score = 0
                /\ gaps[i].priority_score = 0 => gaps[i].gap * gaps[i].required <= 50
                /\ gaps[i].gap * gaps[i].required > 50 => gaps[i].priority_score > 0

\* records with required > 0: one with gap 0, one whose small gap rounds to
\* priority 0, one whose product lies just above the rounding threshold
C7_Witness ==
    /\ GapsDone
    /\ \E i, j, k \in 1..Len(gaps) :
          /\ gaps[i].required > 0 /\ gaps[i].gap = 0 /\ gaps[i].priority_score = 0
          /\ gaps[j].required > 0 /\ gaps[j].gap > 0 /\ gaps[j].priority_score = 0
          /\ gaps[k].required > 0 /\ gaps[k].gap = 5 /\ gaps[k].priority_score > 0

\* C10: the result iterates in non-increasing priority_score order, and skills
\* of equal priority_score keep the order they have in role_requirements.
C10_SortedStable ==
    GapsDone =>
        \A i, j \in 1..Len(gaps) :
            i < j =>
                /\ gaps[i].priority_score >= gaps[j].priority_score
                /\ gaps[i].priority_score = gaps[j].priority_score
                       => ReqIndex(gaps[i].skill) < ReqIndex(gaps[j].skill)

\* a result that reorders the requirement map and holds a tie: the last
\* required skill comes first, two equal non-zero priorities follow in order
C10_Witness ==
    /\ GapsDone
    /\ Len(gaps) = 3
    /\ gaps[1].skill = role_requirements[3].skill
    /\ gaps[2].priority_score = gaps[3].priority_score
    /\ gaps[2].priority_score > 0
    /\ gaps[1].priority_score > gaps[2].priority_score


RECURSIVE SeqSum(_)
SeqSum(xs) == IF xs = << >> THEN 0 ELSE xs[1] + SeqSum(Tail(xs))

\* the sum of the required levels, and of the levels capped at the required
TotalRequired == SeqSum([ i \in 1..Len(role_requirements) |-> role_requirements[i].required ])

TotalCapped ==
    SeqSum([ i \in 1..Len(role_requirements) |->
               LET skill == role_requirements[i].skill
                   current == IF skill \in DOMAIN user_scores THEN user_scores[skill] ELSE 0
               IN  IF current < role_requirements[i].required
                   THEN current ELSE role_requirements[i].required ])

EverySkillAtTarget ==
    \A i \in 1..Len(role_requirements) :
        LET skill == role_requirements[i].skill
            current == IF skill \in DOMAIN user_scores THEN user_scores[skill] ELSE 0
        IN  current >= role_requirements[i].required

\* C8: the readiness is the tenth of a percent nearest to
\* 100 * sum(min(current, required)) / sum(required), missing levels counting
\* as 0; it is 0 when role_requirements is empty or the required levels sum
\* to 0; it always lies within 0..100.
C8_Readiness ==
    pc = "readiness" =>
        /\ IF role_requirements = << >> \/ TotalRequired = 0
           THEN readiness = 0
           ELSE /\ 2 * readiness * TotalRequired <= 2000 * TotalCapped + TotalRequired
                /\ 2 * readiness * TotalRequired >= 2000 * TotalCapped - TotalRequired
        /\ readiness >= 0
        /\ readiness <= 1000

\* required {8, 5}, levels {4.5, 10}: 100 * (4.5 + 5) / 13 = 73.1
C8_Witness ==
    /\ pc = "readiness"
    /\ Len(role_requirements) = 2
    /\ \E i \in 1..2 : GetScore(user_scores, role_requirements[i].skill)
                           > role_requirements[i].required
    /\ TotalRequired = 130
    /\ TotalCapped = 95
    /\ readiness = 731

\* C9 as stated: the readiness is 100 exactly when every skill of
\* role_requirements has current >= required, the empty requirement map and
\* all-zero requirements included.
C9_FullIffAllAtTarget ==
    pc = "readiness" => (readiness = 1000 <=> EverySkillAtTarget)

\* C9 amended: when the required levels sum to more than 0, the readiness is
\* 100 exactly when every skill of role_requirements has current >= required;
\* when they sum to 0 (empty or all-zero requirements) the readiness is 0.
C9_FullIffAllAtTargetPositive ==
    pc = "readiness" =>
        IF TotalRequired > 0
        THEN readiness = 1000 <=> EverySkillAtTarget
        ELSE readiness = 0

\* full readiness over three skills, one of them above its requirement and
\* one required at level 0
C9_Witness ==
    /\ pc = "readiness"
    /\ Len(role_requirements) = 3
    /\ TotalRequired > 0
    /\ readiness = 1000
    /\ EverySkillAtTarget
    /\ \E i, j \in 1..3 :
          /\ GetScore(user_scores, role_requirements[i].skill) > role_requirements[i].required
          /\ role_requirements[i].required > 0
          /\ role_requirements[j].required = 0

\* the skills of role_requirements at or above their requirement
AtTarget ==
    { role_requirements[i].skill : i \in { k \in 1..Len(role_requirements) :
        GetScore(user_scores, role_requirements[k].skill) >= role_requirements[k].required } }

\* the overview's `gap_count`: records of gaps with gap > 0
GapCount == Cardinality({ i \in 1..Len(gaps) : gaps[i].gap > 0 })

\* C11: identify_strength_areas returns exactly the skills of
\* role_requirements whose current level (0 when missing) is >= required, each
\* with surplus = current - required >= 0; a skill is in the result exactly
\* when its gap in calculate_skill_gaps is 0, so the count of strengths plus
\* the count of gaps > 0 equals the number of role skills.
C11_Strengths ==
    pc = "strengths" =>
        /\ { strengths[i].skill : i \in 1..Len(strengths) } = AtTarget
        /\ Len(strengths) = Cardinality(AtTarget)
        /\ \A i \in 1..Len(strengths) :
              LET rec == strengths[i]
              IN  /\ rec.required = role_requirements[ReqIndex(rec.skill)].required
                  /\ rec.current = GetScore(user_scores, rec.skill)
                  /\ rec.surplus = rec.current - rec.required
                  /\ rec.surplus >= 0
        /\ \A i \in 1..Len(gaps) :
              gaps[i].gap = 0 <=> \E j \in 1..Len(strengths) : strengths[j].skill = gaps[i].skill
        /\ Len(strengths) + GapCount = Len(role_requirements)

\* three skills: one exactly at its requirement, one above it and one, missing
\* from user_scores, below it
C11_Witness ==
    /\ pc = "strengths"
    /\ Len(role_requirements) = 3
    /\ Len(strengths) = 2
    /\ GapCount = 1
    /\ \E i, j \in 1..2 :
          /\ strengths[i].surplus = 0 /\ strengths[i].required > 0
          /\ strengths[j].surplus > 0
    /\ \E k \in 1..3 : gaps[k].gap > 0 /\ gaps[k].skill \notin DOMAIN user_scores

\* C12: a skill with required = 0 gets gap = 0 and priority_score = 0 whatever
\* the user's level in 0..10, a skill missing from user_scores included.
C12_ZeroRequired ==
    GapsDone =>
        \A i \in 1..Len(role_requirements) :
            role_requirements[i].required = 0 =>
                \A j \in 1..Len(gaps) :
                    gaps[j].skill = role_requirements[i].skill =>
                        gaps[j].gap = 0 /\ gaps[j].priority_score = 0

\* skills required at 0: one at level 10, one at level 0 and one missing
C12_Witness ==
    /\ GapsDone
    /\ Len(gaps) = 3
    /\ \A j \in 1..3 : gaps[j].required = 0 /\ gaps[j].gap = 0 /\ gaps[j].priority_score = 0
    /\ \E i, j, k \in 1..3 :
          /\ gaps[i].skill \in DOMAIN user_scores /\ gaps[i].current = 100
          /\ gaps[j].skill \in DOMAIN user_scores /\ gaps[j].current = 0
          /\ gaps[k].skill \notin DOMAIN user_scores

----------------------------------------------------------------------------
(* The roadmap on its own: calculate_skill_gaps, then                      *)
(* generate_learning_roadmap on the same inputs and a week count, as on    *)
(* the Learning Roadmap page (app.py lines 470-471).                       *)

\* most skills of a requirement map handed to the roadmap
MaxRoadmapSkills == 4

\* largest week count handed in
MaxWeeks == 3

\* week counts handed in: negative, zero and positive integers
WeekCounts == (0 - 1)..MaxWeeks

\* required levels and user levels handed in, in tenths
RoadmapRequired == { 60, 100 }
RoadmapLevels == { 35, 70 }

InitRoadmap ==
    /\ \E n \in 0..MaxRoadmapSkills :
          /\ role_requirements \in
                 { [ i \in 1..n |-> [ skill |-> GapSkills[i], required |-> r[i] ] ] :
                     r \in [ 1..n -> RoadmapRequired ] }
          /\ user_scores \in PartialMaps({ GapSkills[i] : i \in 1..n }, RoadmapLevels)
    /\ weeks \in WeekCounts
    /\ roadmap = NoRoadmap
    /\ stale_answers = FALSE
    /\ gaps = << >>
    /\ readiness = 0
    /\ strengths = << >>
    /\ role_skills = << >>
    /\ questions_per_skill = 1
    /\ quiz = << >>
    /\ quiz_responses = << >>
    /\ results = << >>
    /\ quiz_mode = FALSE
    /\ submits = 0
    /\ pc = "start"

\* the roadmap computes the gaps again from the same inputs, with the same
\* roundings as the call before it
GenerateLearningRoadmap ==
    /\ pc = "gaps"
    /\ \E fp \in [ 1..Len(role_requirements) -> BOOLEAN ] :
          /\ calculate_skill_gaps(user_scores, role_requirements, fp) = gaps
          /\ roadmap' = generate_learning_roadmap(user_scores, role_requirements, weeks, fp)
    /\ pc' = "roadmap"
    /\ UNCHANGED << role_skills, questions_per_skill, user_scores, quiz, quiz_responses,
                    results, role_requirements, gaps, readiness, strengths, weeks,
                    quiz_mode, submits, stale_answers >>

NextRoadmap == CalculateSkillGaps \/ GenerateLearningRoadmap

SpecRoadmap == InitRoadmap /\ [][NextRoadmap]_vars

----------------------------------------------------------------------------
(* Claims on the roadmap *)

\* the gap records with gap > 0, in the order calculate_skill_gaps returned
GapSkillsInOrder ==
    LET RECURSIVE Keep(_)
        Keep(k) == IF k = 0 THEN << >>
                   ELSE IF gaps[k].gap > 0 THEN Append(Keep(k - 1), gaps[k])
                   ELSE Keep(k - 1)
    IN  Keep(Len(gaps))

\* the focus areas of weeks 1..w of the roadmap, one after the other
RECURSIVE FocusUpTo(_)
FocusUpTo(w) ==
    IF w = 0 THEN << >> ELSE FocusUpTo(w - 1) \o roadmap.weeks[w].focus_areas

\* max(1, n // weeks) for weeks >= 1
BucketSize(n) == IF n \div weeks >= 1 THEN n \div weeks ELSE 1

\* C21: with weeks >= 1 the roadmap has an empty week list when no skill has
\* gap > 0, and otherwise exactly `weeks` week plans numbered 1..weeks whose
\* focus areas, concatenated in week order, are exactly the skills with
\* gap > 0, each once, in the order of calculate_skill_gaps; every week before
\* the last holds max(1, n // weeks) skills, or what is left of the list, and
\* the last week holds all skills from its start index to the end.
C21_WeekBuckets ==
    (pc = "roadmap" /\ weeks >= 1) =>
        LET n == Len(GapSkillsInOrder)
            size == BucketSize(n)
        IN  IF n = 0
            THEN roadmap.weeks = << >>
            ELSE /\ Len(roadmap.weeks) = weeks
                 /\ \A w \in 1..weeks : roadmap.weeks[w].week = w
                 /\ LET focus == FocusUpTo(weeks)
                    IN  /\ Len(focus) = n
                        /\ \A k \in 1..n : focus[k].skill = GapSkillsInOrder[k].skill
                        /\ \A k, m \in 1..n : k # m => focus[k].skill # focus[m].skill
                 /\ \A w \in 1..(weeks - 1) :
                       LET left == n - (w - 1) * size
                       IN  Len(roadmap.weeks[w].focus_areas)
                               = (IF left >= size THEN size ELSE IF left > 0 THEN left ELSE 0)
                 /\ LET start == (weeks - 1) * size
                    IN  Len(roadmap.weeks[weeks].focus_areas)
                            = (IF n > start THEN n - start ELSE 0)

\* three skills with a gap over two weeks: the first week holds 3 // 2 = 1
\* skill, the last week the remaining 2; a fourth skill of the requirement map
\* has no gap, and the order is that of the priorities, not of the map
C21_Witness ==
    /\ pc = "roadmap"
    /\ weeks = 2
    /\ Len(role_requirements) = 4
    /\ Len(GapSkillsInOrder) = 3
    /\ Len(roadmap.weeks) = 2
    /\ Len(roadmap.weeks[1].focus_areas) = 1
    /\ Len(roadmap.weeks[2].focus_areas) = 2
    /\ roadmap.weeks[1].focus_areas[1].skill # role_requirements[1].skill

\* every focus area of the roadmap
AllFocusAreas == FocusUpTo(Len(roadmap.weeks))

\* the gap record of a skill
GapRecordOf(skill) == gaps[CHOOSE i \in 1..Len(gaps) : gaps[i].skill = skill]

\* C22: every focus area has difficulty Beginner when the skill's current
\* level is <= 3, Intermediate when it is > 3 and <= 6, Advanced otherwise; a
\* priority label that is the critical one when priority_score > 15, the
\* important one when 8 < priority_score <= 15 and the moderate one otherwise;
\* and current_level, target_level and levels_to_improve equal to the current,
\* required and gap of the skill's gap record.
C22_FocusLabels ==
    pc = "roadmap" =>
        \A k \in 1..Len(AllFocusAreas) :
            LET area == AllFocusAreas[k]
                rec == GapRecordOf(area.skill)
            IN  /\ area.current_level = rec.current
                /\ area.target_level = rec.required
                /\ area.levels_to_improve = rec.gap
                /\ rec.current <= 30 => area.difficulty = "Beginner"
                /\ (rec.current > 30 /\ rec.current <= 60) => area.difficulty = "Intermediate"
                /\ rec.current > 60 => area.difficulty = "Advanced"
                /\ rec.priority_score > 150
                       => area.priority = "Critical - Focus on this first"
                /\ (rec.priority_score > 80 /\ rec.priority_score <= 150)
                       => area.priority = "Important - High priority"
                /\ rec.priority_score <= 80
                       => area.priority = "Moderate - Can be learned later"

\* a roadmap with a Beginner, an Intermediate and an Advanced focus area, one
\* of them of important and one of moderate priority
C22_Witness ==
    /\ pc = "roadmap"
    /\ \E i, j, k \in 1..Len(AllFocusAreas) :
          /\ AllFocusAreas[i].difficulty = "Beginner"
          /\ AllFocusAreas[i].priority = "Important - High priority"
          /\ AllFocusAreas[i].current_level = 0
          /\ AllFocusAreas[j].difficulty = "Intermediate"
          /\ AllFocusAreas[j].current_level = 35
          /\ AllFocusAreas[j].priority = "Moderate - Can be learned later"
          /\ AllFocusAreas[k].difficulty = "Advanced"
          /\ AllFocusAreas[k].levels_to_improve = 30

\* C30: for levels and requirements within 0..10 the priority_score never
\* exceeds 10, so no focus area of a roadmap carries the critical priority
\* label, which needs priority_score > 15.
C30_NeverCritical ==
    /\ pc \in { "gaps", "roadmap" } =>
          \A i \in 1..Len(gaps) : gaps[i].priority_score <= 100
    /\ pc = "roadmap" =>
          \A k \in 1..Len(AllFocusAreas) :
              /\ AllFocusAreas[k].priority_score <= 100
              /\ AllFocusAreas[k].priority # "Critical - Focus on this first"

\* a roadmap holding a skill required at 10 with level 0: priority_score 10,
\* the largest there is, labelled important
C30_Witness ==
    /\ pc = "roadmap"
    /\ \E k \in 1..Len(AllFocusAreas) :
          /\ AllFocusAreas[k].target_level = 100
          /\ AllFocusAreas[k].current_level = 0
          /\ AllFocusAreas[k].priority_score = 100
          /\ AllFocusAreas[k].priority = "Important - High priority"

\* C24 as stated: the core functions are total, for every integer week count
\* generate_learning_roadmap returns a roadmap and raises nothing.
C24_RoadmapNeverRaises ==
    pc = "roadmap" => roadmap # Raised

----------------------------------------------------------------------------
(* Claims on the session *)

\* a step that submits a quiz
SubmitStep == submits' = submits + 1

\* C2: when a quiz is submitted, for every skill of the score_quiz result the
\* stored level becomes round((previous + score_0_10) / 2, 1) whenever the
\* skill had a level in user_scores, a level of 0 included, and becomes
\* score_0_10 only when the skill had no entry in user_scores.
C2_BlendWhenLevelExisted ==
    [][ SubmitStep =>
          \A skill \in DOMAIN results' :
              LET score == results'[skill].score_0_10
              IN  IF skill \in DOMAIN user_scores
                  THEN /\ 2 * user_scores'[skill] <= user_scores[skill] + score + 1
                       /\ 2 * user_scores'[skill] >= user_scores[skill] + score - 1
                  ELSE user_scores'[skill] = score ]_vars

\* the gap calculate_skill_gaps reports for one skill required at `required`
GapOf(scores, skill, required) ==
    calculate_skill_gaps(scores, << [ skill |-> skill, required |-> required ] >>,
                         << TRUE >>)[1].gap

\* C19: when a quiz is submitted, for every skill whose score_0_10 is at least
\* its previous level (0 when it had none), the gap calculate_skill_gaps
\* computes from the blended user_scores is not larger than the gap computed
\* before the submission, for every required level in 0..10 (taken in
\* steps of 0.5; at required 10 the gap is 10 - level, so any drop shows).
C19_GapNotLarger ==
    [][ SubmitStep =>
          \A skill \in DOMAIN results' :
              results'[skill].score_0_10 >= GetScore(user_scores, skill) =>
                  \A required \in { 5 * k : k \in 0..20 } :
                      GapOf(user_scores', skill, required)
                          <= GapOf(user_scores, skill, required) ]_vars

\* a submission that blended level 3.5 with score 6.5 into 5.0, closing part
\* of the gap to the required 7
C19_Witness ==
    /\ submits = 1
    /\ "Git" \in DOMAIN results
    /\ results["Git"].score_0_10 = 65
    /\ user_scores["Git"] = 50
    /\ \E i \in 1..Len(role_requirements) :
          role_requirements[i].skill = "Git" /\ role_requirements[i].required = 70

\* a step taken on the Adaptive Quiz page
QuizPageStep ==
    \/ \E qps \in 1..MaxQuestionsPerSkill : StartQuiz(qps)
    \/ \E i \in 1..Len(quiz) : \E chosen \in AnswerChoices(quiz[i]) : AnswerQuestion(i, chosen)
    \/ SubmitQuiz
    \/ CancelQuiz
    \/ Back

\* a step that enters quiz mode
StartStep == ~quiz_mode /\ quiz_mode'

\* the ids of the items of the stored quiz
QuizIds == { quiz[i].id : i \in 1..Len(quiz) }

C26_SubmitOnlyComplete ==
    [][ /\ SubmitStep =>
              /\ quiz_mode
              /\ DOMAIN quiz_responses = QuizIds
              /\ quiz' = quiz /\ quiz_responses' = quiz_responses
              /\ \A i \in 1..Len(quiz) : GetAnswer(quiz_responses, quiz[i].id) # NoAnswer
        /\ (quiz_mode /\ Cardinality(DOMAIN quiz_responses) < Len(quiz)) =>
              /\ results' = results
              /\ submits' = submits ]_vars

\* a submitted quiz of several items, all answered
C26_Witness ==
    /\ submits = 1
    /\ ~quiz_mode
    /\ Len(quiz) >= 3
    /\ DOMAIN quiz_responses = QuizIds
    /\ DOMAIN results = SkillsOf(quiz)

\* C27: after any sequence of self-assessment edits, resume extractions and
\* quiz submissions every stored level lies within 0..10, and so does every
\* gap and priority_score computed from it against a requirement in 0..10.
C27_LevelsInRange ==
    \A skill \in DOMAIN user_scores :
        /\ user_scores[skill] >= 0
        /\ user_scores[skill] <= 100
        /\ \A required \in { 0, 50, 100 }, up \in BOOLEAN :
              LET rec == calculate_skill_gaps(user_scores,
                             << [ skill |-> skill, required |-> required ] >>,
                             << up >>)[1]
              IN  /\ rec.gap >= 0 /\ rec.gap <= 100
                  /\ rec.priority_score >= 0 /\ rec.priority_score <= 100

\* a level raised by the resume to 9 and then blended with a quiz score of 10
C27_Witness ==
    /\ submits = 1
    /\ \E skill \in DOMAIN results :
          /\ results[skill].score_0_10 = 100
          /\ user_scores[skill] = 95

\* C28: every Start Quiz replaces the stored quiz and empties quiz_responses
\* as quiz mode is entered; the quiz changes at no other step and answers are
\* recorded only in quiz mode, for items of the stored quiz; so the answers a
\* submission scores were all recorded after the scored quiz was generated.
C28_FreshAnswers ==
    [][ /\ StartStep => (quiz_responses' = << >> /\ quiz_mode')
        /\ quiz' # quiz => StartStep
        /\ (quiz_responses' # quiz_responses /\ ~StartStep) =>
              /\ quiz_mode /\ quiz_mode' /\ quiz' = quiz
              /\ \A qid \in DOMAIN quiz_responses' :
                    qid \in DOMAIN quiz_responses \/ qid \in QuizIds
        /\ SubmitStep => (quiz_mode /\ quiz' = quiz /\ DOMAIN quiz_responses \subseteq QuizIds) ]_vars

\* a submission of a quiz that was started while answers of an earlier,
\* cancelled quiz were still stored
C28_Witness ==
    /\ submits = 1
    /\ stale_answers
    /\ DOMAIN quiz_responses = QuizIds

\* C29: Cancel Quiz leaves quiz mode and leaves user_scores unchanged whatever
\* was answered; a submission changes user_scores only for skills with an
\* item in the submitted quiz.
C29_Frame ==
    [][ /\ CancelQuiz => (~quiz_mode' /\ user_scores' = user_scores)
        /\ SubmitStep =>
              /\ DOMAIN user_scores' = DOMAIN user_scores \cup SkillsOf(quiz)
              /\ \A skill \in DOMAIN user_scores \ SkillsOf(quiz) :
                    user_scores'[skill] = user_scores[skill] ]_vars

\* a submission that left the level of a skill without questions alone, after
\* an earlier quiz with recorded answers had been cancelled
C29_Witness ==
    /\ submits = 1
    /\ stale_answers
    /\ \E skill \in DOMAIN user_scores :
          /\ skill \notin SkillsOf(quiz)
          /\ user_scores[skill] = 35
    /\ \E skill \in SkillsOf(quiz) : user_scores[skill] # 35

====
